---- MODULE Spec2Model ----
(***************************************************************************)
(* A model of the MXINT4 systolic-array matrix multiplier:                 *)
(*   src/src/sa.h    unpack_dequantize_weight and the tile constants       *)
(*   src/src/sa.cpp  SystolicArrayKernel and its static scratch arrays     *)
(*   src/main.cpp    quantize_mxint4, cpu_reference and the test vectors   *)
(*                                                                         *)
(* Four specifications share the module:                                   *)
(*   SpecDeq    applies unpack_dequantize_weight to every byte/flag/scale  *)
(*   SpecQuant  runs quantize_mxint4 group by group, pair by pair          *)
(*   SpecAcc    runs the multiply-accumulate recurrence for K_DIM steps    *)
(*   Spec       repeated invocations of SystolicArrayKernel                *)
(***************************************************************************)
EXTENDS Integers, Sequences, FiniteSets, TLC

VARIABLES
    deq,              \* SpecDeq: one call of unpack_dequantize_weight
    quant,            \* SpecQuant: the state of one run of quantize_mxint4
    mac,              \* SpecAcc: one accumulator cell and its operands
    pc,               \* kernel: the loop the kernel is in
    dims,             \* kernel: the arguments M, K, N
    activations,      \* kernel: mmap<int8_t>, length M*K
    weights_packed,   \* kernel: mmap<uint8_t>, length K*N/2
    scales,           \* kernel: mmap<uint8_t>, length K*N/GROUP_SIZE
    result,           \* kernel: mmap<int32_t>, length M*N
    A_cache,          \* static int8_t A_cache[8][PE_ROWS][K_DIM]
    W_cache,          \* static int8_t W_cache[32][PE_COLS][K_DIM]
    A_work,           \* static int8_t A_work[PE_ROWS][K_DIM]
    W_work,           \* static int8_t W_work[PE_COLS][K_DIM]
    C_work,           \* static int32_t C_work[PE_ROWS][PE_COLS]
    m_tile,           \* kernel: loop counter of load_all_act / m_loop
    n_tile,           \* kernel: loop counter of load_all_wgt / n_loop
    k,                \* kernel: loop counter of compute
    invocation,       \* number of kernel invocations started so far
    touched,          \* history: buffers read or written by this invocation
    written,          \* history: scratch regions written by this invocation
    staleRead,        \* history: a scratch read hit a region not yet written
    cOwners           \* history: the tile computations that used C_work

kvars == <<pc, dims, activations, weights_packed, scales, result, A_cache,
           W_cache, A_work, W_work, C_work, m_tile, n_tile, k, invocation,
           touched, written, staleRead, cOwners>>
vars == <<deq, quant, mac, kvars>>

----------------------------------------------------------------------------
(* Program constants (src/src/sa.h, src/src/sa.cpp).                       *)

M_DIM == 128
K_DIM == 4096
N_DIM == 512
PE_ROWS == 16
PE_COLS == 16
GROUP_SIZE == 16
\* sa.h: "Cache 24 out of 32 N-tiles"; the mutant of W_CACHE_TILES
WGT_CACHE_SIZE == 24
\* first dimension of A_cache and of W_cache
A_CACHE_TILES == 8
W_CACHE_TILES == 32

----------------------------------------------------------------------------
(* Machine integers.                                                       *)

Pow2(e) == 2 ^ e

Abs(x) == IF x < 0 THEN -x ELSE x

Max(a, b) == IF a >= b THEN a ELSE b

Min(a, b) == IF a <= b THEN a ELSE b

\* conversion of an int to int8_t
ToInt8(x) == ((x + 128) % 256) - 128

\* conversion of an int to uint8_t
ToUint8(x) == x % 256

\* the range of int32_t
MaxInt32 == 2147483647
MinInt32 == -MaxInt32 - 1

InInt32(x) == MinInt32 <= x /\ x <= MaxInt32

\* c + d in int32_t for c in int32_t and a small d, wrapping on overflow
\* (what the builds do on signed overflow), computed without leaving the range
AddInt32(c, d) ==
    IF d > 0 /\ c > MaxInt32 - d THEN MinInt32 + ((c - (MaxInt32 - d)) - 1)
    ELSE IF d < 0 /\ c < MinInt32 - d THEN MaxInt32 - (((MinInt32 - d) - c) - 1)
    ELSE c + d

----------------------------------------------------------------------------
(* sa.h: unpack_dequantize_weight.                                         *)

unpack_dequantize_weight(packed_byte, is_upper, scale_factor) ==
    LET nib == IF is_upper THEN (packed_byte \div 16) % 16 ELSE packed_byte % 16
        \* if (w_4bit & 0x08) w_4bit |= 0xF0, stored back into an int8_t
        w_4bit == IF (nib \div 8) % 2 = 1 THEN ToInt8(nib + 240) ELSE nib
        shift_amount == ToUint8((scale_factor % 4) * 2)
    \* return w_4bit << shift_amount, narrowed to the int8_t return type
    IN  ToInt8(w_4bit * Pow2(shift_amount))

----------------------------------------------------------------------------
(* SpecDeq: unpack_dequantize_weight on every packed byte, nibble flag and *)
(* scale.                                                                  *)

MaxScale == 3

DeqInit ==
    \E b \in 0 .. 255, u \in BOOLEAN, s \in 0 .. MaxScale :
        deq = [packed |-> b, upper |-> u, scale |-> s, out |-> 0, done |-> FALSE]

DeqCall ==
    /\ ~deq.done
    /\ deq' = [deq EXCEPT !.out = unpack_dequantize_weight(deq.packed, deq.upper, deq.scale),
                          !.done = TRUE]

----------------------------------------------------------------------------
(* main.cpp: quantize_mxint4.  A float weight is the rational n / WDen; the *)
(* model holds the numerator n.                                             *)

\* weights are multiples of 1 / WDen
WDen == 2

RECURSIVE FloorLog2Int(_)
FloorLog2Int(v) == IF v < 2 THEN 0 ELSE 1 + FloorLog2Int(v \div 2)

RECURSIVE NegLog2(_, _)
NegLog2(n, d) == IF n >= d THEN 0 ELSE 1 + NegLog2(2 * n, d)

\* std::floor(std::log2(n / d)) for n > 0
FloorLog2(n, d) == IF n >= d THEN FloorLog2Int(n \div d) ELSE -NegLog2(n, d)

\* std::round(n / d): to nearest, halves away from zero
RoundDiv(n, d) ==
    LET q == (2 * Abs(n) + d) \div (2 * d)
    IN  IF n < 0 THEN -q ELSE q

RECURSIVE GroupMaxAbs(_, _, _)
\* the max_abs loop over weights_fp32[base_idx .. base_idx + cnt - 1]
GroupMaxAbs(w, base_idx, cnt) ==
    IF cnt = 0 THEN 0
    ELSE Max(GroupMaxAbs(w, base_idx, cnt - 1), Abs(w[base_idx + cnt - 1]))

\* the mutant subtracts 4, one exponent too many
QuantShiftOffByOne(max_abs) ==
    IF max_abs > 0 THEN Max(0, Min(3, FloorLog2(max_abs, WDen) - 4)) ELSE 0

\* shift = clamp(floor(log2(max_abs)) - 3, 0, 3), 0 when max_abs is 0
QuantShift(max_abs) ==
    IF max_abs > 0 THEN Max(0, Min(3, FloorLog2(max_abs, WDen) - 3)) ELSE 0

\* scale_val = pow(2, shift * 2)
ScaleVal(shift) == Pow2(shift * 2)

\* (int8_t)std::round(w / scale_val), clamped to [-8, 7]
QuantNibble(n, shift) ==
    Max(-8, Min(7, ToInt8(RoundDiv(n, WDen * ScaleVal(shift)))))

\* (w0 & 0x0F) | ((w1 & 0x0F) << 4)
PackPair(w0, w1) == ToUint8((w0 % 16) + 16 * (w1 % 16))

MaxWeight == 100
YStep == 16
NumGroups == 2
TotalWeights == NumGroups * GROUP_SIZE

WeightNums == (-MaxWeight * WDen) .. (MaxWeight * WDen)
\* the multiples of YStep.0
CoarseNums == {n \in WeightNums : n % (YStep * WDen) = 0}

\* group 0 alternates x, y; the later groups alternate y, 0
WeightPattern(x, y) ==
    [j \in 0 .. TotalWeights - 1 |->
        IF j < GROUP_SIZE THEN (IF j % 2 = 0 THEN x ELSE y)
        ELSE (IF j % 2 = 0 THEN y ELSE 0)]

QuantInit ==
    \E x \in WeightNums, y \in CoarseNums :
        quant = [pc |-> "scale",
                 weights |-> WeightPattern(x, y),
                 packed |-> [b \in 0 .. (TotalWeights \div 2) - 1 |-> 0],
                 scales |-> [g \in 0 .. (TotalWeights \div GROUP_SIZE) - 1 |-> 0],
                 grp |-> 0, i |-> 0, shift |-> 0]

\* lines 35-51: max_abs, shift, scales[grp]
QuantScale ==
    /\ quant.pc = "scale"
    /\ quant.grp < TotalWeights \div GROUP_SIZE
    /\ LET base_idx == quant.grp * GROUP_SIZE
           max_abs == GroupMaxAbs(quant.weights, base_idx, GROUP_SIZE)
           shift == QuantShift(max_abs)
       IN  quant' = [quant EXCEPT !.scales[quant.grp] = ToUint8(shift),
                                  !.shift = shift, !.i = 0, !.pc = "pairs"]

\* lines 56-71: one iteration of the pair loop, then the group loop's step
QuantPair ==
    /\ quant.pc = "pairs"
    /\ quant.i < GROUP_SIZE
    /\ LET idx0 == quant.grp * GROUP_SIZE + quant.i
           idx1 == idx0 + 1
           w0 == QuantNibble(quant.weights[idx0], quant.shift)
           w1 == QuantNibble(quant.weights[idx1], quant.shift)
           last == quant.i + 2 >= GROUP_SIZE
           lastGroup == quant.grp + 1 >= TotalWeights \div GROUP_SIZE
       IN  quant' = [quant EXCEPT !.packed[idx0 \div 2] = PackPair(w0, w1),
                                  !.i = IF last THEN 0 ELSE quant.i + 2,
                                  !.grp = IF last THEN quant.grp + 1 ELSE quant.grp,
                                  !.pc = IF last THEN (IF lastGroup THEN "done" ELSE "scale")
                                         ELSE "pairs"]

----------------------------------------------------------------------------
(* The multiply-accumulate of sa.cpp:135 and main.cpp:105.                  *)

\* the mutant accumulates in 16 bits
MacStepNarrow(c, a, w) == ((c + a * w + 32768) % 65536) - 32768

\* C_work[i][j] += (int32_t)a * (int32_t)w;  sum += (int32_t)a * (int32_t)w
MacStep(c, a, w) == AddInt32(c, a * w)

----------------------------------------------------------------------------
(* SpecAcc: one accumulator cell over the K_DIM reduction steps, for the    *)
(* extreme activations and every value the dequantizer returns.             *)

ActExtremes == {-128, -1, 127}

WeightValues ==
    {unpack_dequantize_weight(b, FALSE, s) : b \in 0 .. 15, s \in 0 .. 3}

MacInit ==
    \E a \in ActExtremes, w \in WeightValues :
        mac = [a |-> a, w |-> w, k |-> 0, sum |-> 0]

\* one iteration of the compute loop (sa.cpp:123-138) for one cell, or of
\* the k loop of cpu_reference (main.cpp:89-106)
MacIterate ==
    /\ mac.k < K_DIM
    /\ mac' = [mac EXCEPT !.sum = MacStep(mac.sum, mac.a, mac.w), !.k = mac.k + 1]

----------------------------------------------------------------------------
(* main.cpp: cpu_reference.                                                 *)

RECURSIVE RefSum(_, _, _, _, _, _, _, _)
\* sum after the first kk iterations of the k loop for output (m, n)
RefSum(act, wgt_packed, scl, m, n, K, N, kk) ==
    IF kk = 0 THEN 0
    ELSE LET kx == kk - 1
             a == act[m * K + kx]
             w_idx == kx * N + n
             packed == wgt_packed[w_idx \div 2]
             scale_factor == scl[w_idx \div GROUP_SIZE]
             is_upper == (w_idx % 2) = 1
             w == unpack_dequantize_weight(packed, is_upper, scale_factor)
         IN  MacStep(RefSum(act, wgt_packed, scl, m, n, K, N, kx), a, w)

cpu_reference(act, wgt_packed, scl, M, K, N) ==
    [idx \in 0 .. M * N - 1 |->
        RefSum(act, wgt_packed, scl, idx \div N, idx % N, K, N, K)]

----------------------------------------------------------------------------
(* main.cpp:120-141: the harness's test vectors (seed 0), and synthetic     *)
(* vectors that use every byte value and every scale (seeds 1, 2, ...).     *)

\* (int8_t)max(-127, min(127, ((i % 17) - 8) / 8.0f * 127.0f)): towards zero
HarnessAct(i) ==
    LET v == ((i % 17) - 8) * 127
        t == Abs(v) \div 8
    IN  ToInt8(Max(-127, Min(127, IF v < 0 THEN -t ELSE t)))

\* quantize_mxint4 of ((i % 19) - 9) / 9.0f: max_abs <= 1, so shift 0
HarnessNibble(i) == Max(-8, Min(7, ToInt8(RoundDiv((i % 19) - 9, 9))))

InputAct(seed, M, K) ==
    [i \in 0 .. M * K - 1 |->
        IF seed = 0 THEN HarnessAct(i) ELSE ToInt8(37 * i + 101 * seed)]

InputPacked(seed, K, N) ==
    [b \in 0 .. ((K * N) \div 2) - 1 |->
        IF seed = 0 THEN PackPair(HarnessNibble(2 * b), HarnessNibble(2 * b + 1))
        ELSE ToUint8(29 * b + 53 * seed + 7)]

InputScales(seed, K, N) ==
    [g \in 0 .. ((K * N) \div GROUP_SIZE) - 1 |->
        IF seed = 0 THEN 0 ELSE ToUint8(g + 5 * seed + 2)]

----------------------------------------------------------------------------
(* sa.cpp: SystolicArrayKernel.  The static arrays are modelled in their    *)
(* declared first dimensions; of the K_DIM columns the model keeps the      *)
(* first MaxK, the only ones an invocation with K <= MaxK touches.          *)

MaxK == 2
NumSeeds == 2
MaxInvocations == 2

Rows == 0 .. PE_ROWS - 1
Cols == 0 .. PE_COLS - 1
KCols == 0 .. MaxK - 1

\* (M, K, N): one tile; several tiles in both dimensions; M not a multiple
\* of PE_ROWS; exactly as many M-tiles as A_cache holds, and one more
Shapes ==
    { <<PE_ROWS, 1, PE_COLS>>,
      <<2 * PE_ROWS, MaxK, 2 * PE_COLS>>,
      <<PE_ROWS + PE_ROWS \div 2, 1, PE_COLS>>,
      <<M_DIM, 1, PE_COLS>>,
      <<M_DIM + PE_ROWS, 1, PE_COLS>> }

\* exactly as many N-tiles as W_cache holds, and one more
WideShapes ==
    { <<PE_ROWS, 1, N_DIM>>,
      <<PE_ROWS, 1, N_DIM + PE_COLS>> }

\* every shape with every seed; the wide shapes with the last seed only
Inputs ==
    {<<shape, seed>> : shape \in Shapes, seed \in 0 .. NumSeeds - 1}
        \cup {<<shape, NumSeeds - 1>> : shape \in WideShapes}

NumMTiles == dims.M \div PE_ROWS
NumNTiles == dims.N \div PE_COLS

ZeroTile == [r \in Rows |-> [kk \in KCols |-> 0]]

NoneWritten == [A |-> {}, W |-> {}, Awork |-> FALSE, Wwork |-> FALSE, C |-> FALSE]

KernelInit ==
    /\ pc = "idle"
    /\ dims = [M |-> 0, K |-> 0, N |-> 0]
    /\ activations = <<>>
    /\ weights_packed = <<>>
    /\ scales = <<>>
    /\ result = <<>>
    /\ A_cache = [t \in 0 .. A_CACHE_TILES - 1 |-> ZeroTile]
    /\ W_cache = [t \in 0 .. W_CACHE_TILES - 1 |-> ZeroTile]
    /\ A_work = ZeroTile
    /\ W_work = ZeroTile
    /\ C_work = [i \in Rows |-> [j \in Cols |-> 0]]
    /\ m_tile = 0
    /\ n_tile = 0
    /\ k = 0
    /\ invocation = 0
    /\ touched = {}
    /\ written = NoneWritten
    /\ staleRead = FALSE
    /\ cOwners = {}

\* main.cpp:149-166: the caller allocates out_hw(M * N) and invokes the kernel
Invoke ==
    /\ pc \in {"idle", "done"}
    /\ invocation < MaxInvocations
    /\ \E input \in Inputs :
        LET M == input[1][1]
            K == input[1][2]
            N == input[1][3]
            seed == input[2]
        IN  /\ dims' = [M |-> M, K |-> K, N |-> N]
            /\ activations' = InputAct(seed, M, K)
            /\ weights_packed' = InputPacked(seed, K, N)
            /\ scales' = InputScales(seed, K, N)
            /\ result' = [idx \in 0 .. M * N - 1 |-> 0]
    /\ invocation' = invocation + 1
    /\ pc' = "load_act"
    /\ m_tile' = 0
    /\ touched' = {}
    /\ written' = NoneWritten
    /\ staleRead' = FALSE
    /\ cOwners' = {}
    /\ UNCHANGED <<A_cache, W_cache, A_work, W_work, C_work, n_tile, k>>

\* load_act_tile (sa.cpp:45-54) for tile t, over the tile's old contents
ActTileData(t, old) ==
    [i \in Rows |-> [kk \in KCols |->
        IF kk < dims.K THEN activations[(t * PE_ROWS + i) * dims.K + kk]
        ELSE old[i][kk]]]

\* the mutant indexes the weights as if they were stored row-major by N
WLinearTransposed(kk, n_idx) == n_idx * dims.K + kk

\* int w_linear = k * N + n_idx
WLinear(kk, n_idx) == kk * dims.N + n_idx

\* load_wgt_tile (sa.cpp:65-82) for tile t, over the tile's old contents
WgtTileData(t, old) ==
    [j \in Cols |-> [kk \in KCols |->
        IF kk < dims.K
        THEN LET w_linear == WLinear(kk, t * PE_COLS + j)
                 packed_byte == weights_packed[w_linear \div 2]
                 scale_factor == scales[w_linear \div GROUP_SIZE]
                 is_upper == (w_linear % 2) = 1
             IN  unpack_dequantize_weight(packed_byte, is_upper, scale_factor)
        ELSE old[j][kk]]]

\* One iteration of load_all_act: the whole of load_act_tile.  A store to
\* A_cache[m_tile] with m_tile past the first dimension is undefined: it
\* either leaves every declared cell alone or lands in the array declared
\* next, W_cache.
LoadActTile ==
    /\ pc = "load_act"
    /\ m_tile < NumMTiles
    /\ IF m_tile < A_CACHE_TILES
       THEN /\ A_cache' = [A_cache EXCEPT ![m_tile] = ActTileData(m_tile, @)]
            /\ W_cache' = W_cache
            /\ written' = [written EXCEPT !.A = @ \cup {m_tile}]
       ELSE \E alias \in BOOLEAN :
            LET t == m_tile - A_CACHE_TILES
            IN  /\ A_cache' = A_cache
                /\ IF alias /\ t < W_CACHE_TILES
                   THEN /\ W_cache' = [W_cache EXCEPT ![t] = ActTileData(m_tile, @)]
                        /\ written' = [written EXCEPT !.W = @ \cup {t}]
                   ELSE /\ W_cache' = W_cache
                        /\ written' = written
    /\ touched' = IF dims.K > 0 THEN touched \cup {"activations", "A_cache"} ELSE touched
    /\ m_tile' = m_tile + 1
    /\ UNCHANGED <<pc, dims, activations, weights_packed, scales, result, A_work,
                   W_work, C_work, n_tile, k, invocation, staleRead, cOwners>>

LoadActExit ==
    /\ pc = "load_act"
    /\ m_tile >= NumMTiles
    /\ pc' = "load_wgt"
    /\ n_tile' = 0
    /\ UNCHANGED <<dims, activations, weights_packed, scales, result, A_cache,
                   W_cache, A_work, W_work, C_work, m_tile, k, invocation,
                   touched, written, staleRead, cOwners>>

\* One iteration of load_all_wgt: the whole of load_wgt_tile.  A store to
\* W_cache[n_tile] with n_tile past the first dimension is undefined: it
\* either leaves every declared cell alone or lands in the array declared
\* next, A_work.
LoadWgtTile ==
    /\ pc = "load_wgt"
    /\ n_tile < NumNTiles
    /\ IF n_tile < W_CACHE_TILES
       THEN /\ W_cache' = [W_cache EXCEPT ![n_tile] = WgtTileData(n_tile, @)]
            /\ A_work' = A_work
            /\ written' = [written EXCEPT !.W = @ \cup {n_tile}]
       ELSE \E alias \in BOOLEAN :
            /\ W_cache' = W_cache
            /\ IF alias /\ n_tile = W_CACHE_TILES
               THEN /\ A_work' = WgtTileData(n_tile, A_work)
                    /\ written' = [written EXCEPT !.Awork = TRUE]
               ELSE /\ A_work' = A_work
                    /\ written' = written
    /\ touched' = IF dims.K > 0
                  THEN touched \cup {"weights_packed", "scales", "W_cache"}
                  ELSE touched
    /\ n_tile' = n_tile + 1
    /\ UNCHANGED <<pc, dims, activations, weights_packed, scales, result, A_cache,
                   W_work, C_work, m_tile, k, invocation, staleRead, cOwners>>

LoadWgtExit ==
    /\ pc = "load_wgt"
    /\ n_tile >= NumNTiles
    /\ pc' = "m_loop"
    /\ m_tile' = 0
    /\ UNCHANGED <<dims, activations, weights_packed, scales, result, A_cache,
                   W_cache, A_work, W_work, C_work, n_tile, k, invocation,
                   touched, written, staleRead, cOwners>>

\* m_loop's test succeeds: n_loop starts
MLoopEnter ==
    /\ pc = "m_loop"
    /\ m_tile < NumMTiles
    /\ pc' = "n_loop"
    /\ n_tile' = 0
    /\ UNCHANGED <<dims, activations, weights_packed, scales, result, A_cache,
                   W_cache, A_work, W_work, C_work, m_tile, k, invocation,
                   touched, written, staleRead, cOwners>>

\* m_loop's test fails: the kernel returns
MLoopExit ==
    /\ pc = "m_loop"
    /\ m_tile >= NumMTiles
    /\ pc' = "done"
    /\ UNCHANGED <<dims, activations, weights_packed, scales, result, A_cache,
                   W_cache, A_work, W_work, C_work, m_tile, n_tile, k, invocation,
                   touched, written, staleRead, cOwners>>

\* the rows of a working buffer after copy_to_work's k loop
LoadWork(src, old) ==
    [r \in Rows |-> [kk \in KCols |-> IF kk < dims.K THEN src[r][kk] ELSE old[r][kk]]]

\* the mutant leaves W_work as the previous tile left it
WWorkKept(src, old) == old

\* W_work[j][k] = W_cache[n_tile][j][k]
WWorkLoad(src, old) == LoadWork(src, old)

\* A_work[i][k] = A_cache[m_tile][i][k]
AWorkLoad(src, old) == LoadWork(src, old)

\* n_loop's test succeeds and copy_to_work (sa.cpp:97-111) runs.  A load
\* from A_cache[m_tile] or W_cache[n_tile] past the first dimension is
\* undefined: it reads zeros, or the array declared next (W_cache after
\* A_cache, A_work after W_cache).
CopyToWork ==
    /\ pc = "n_loop"
    /\ n_tile < NumNTiles
    /\ \E aliasA \in (IF m_tile < A_CACHE_TILES THEN {FALSE} ELSE BOOLEAN),
          aliasW \in (IF n_tile < W_CACHE_TILES THEN {FALSE} ELSE BOOLEAN) :
        LET ta == m_tile - A_CACHE_TILES
            srcA == IF m_tile < A_CACHE_TILES THEN A_cache[m_tile]
                    ELSE IF aliasA /\ ta < W_CACHE_TILES THEN W_cache[ta]
                    ELSE ZeroTile
            newA == AWorkLoad(srcA, A_work)
            srcW == IF n_tile < W_CACHE_TILES THEN W_cache[n_tile]
                    ELSE IF aliasW /\ n_tile = W_CACHE_TILES THEN newA
                    ELSE ZeroTile
            staleA == IF m_tile < A_CACHE_TILES THEN m_tile \notin written.A
                      ELSE aliasA /\ ta < W_CACHE_TILES /\ ta \notin written.W
            staleW == n_tile < W_CACHE_TILES /\ n_tile \notin written.W
        IN  /\ A_work' = newA
            /\ W_work' = WWorkLoad(srcW, W_work)
            /\ staleRead' = (staleRead \/ (dims.K > 0 /\ (staleA \/ staleW)))
    /\ written' = IF dims.K > 0
                  THEN [written EXCEPT !.Awork = TRUE, !.Wwork = TRUE]
                  ELSE written
    /\ touched' = IF dims.K > 0
                  THEN touched \cup {"A_cache", "W_cache", "A_work", "W_work"}
                  ELSE touched
    /\ pc' = "init"
    /\ UNCHANGED <<dims, activations, weights_packed, scales, result, A_cache,
                   W_cache, C_work, m_tile, n_tile, k, invocation, cOwners>>

\* n_loop's test fails: m_loop's ++m_tile
NLoopExit ==
    /\ pc = "n_loop"
    /\ n_tile >= NumNTiles
    /\ pc' = "m_loop"
    /\ m_tile' = m_tile + 1
    /\ UNCHANGED <<dims, activations, weights_packed, scales, result, A_cache,
                   W_cache, A_work, W_work, C_work, n_tile, k, invocation,
                   touched, written, staleRead, cOwners>>

\* the mutant leaves the accumulator as the previous tile left it
ZeroedCKept == C_work

\* C_work[i][j] = 0 for every cell
ZeroedC == [i \in Rows |-> [j \in Cols |-> 0]]

\* the mutant forgets the initialisation loop altogether
InitOutputSkipped ==
    /\ pc = "init"
    /\ cOwners' = cOwners \cup {<<m_tile, n_tile>>}
    /\ k' = 0
    /\ pc' = "compute"
    /\ UNCHANGED <<dims, activations, weights_packed, scales, result, A_cache,
                   W_cache, A_work, W_work, C_work, m_tile, n_tile, invocation,
                   touched, written, staleRead>>

\* the initialisation loops of sa.cpp:114-120
InitOutput ==
    /\ pc = "init"
    /\ C_work' = ZeroedC
    /\ written' = [written EXCEPT !.C = TRUE]
    /\ touched' = touched \cup {"C_work"}
    /\ cOwners' = cOwners \cup {<<m_tile, n_tile>>}
    /\ k' = 0
    /\ pc' = "compute"
    /\ UNCHANGED <<dims, activations, weights_packed, scales, result, A_cache,
                   W_cache, A_work, W_work, m_tile, n_tile, invocation, staleRead>>

\* one iteration of compute (sa.cpp:123-138): every cell of the tile
ComputeStep ==
    /\ pc = "compute"
    /\ k < dims.K
    /\ C_work' = [i \in Rows |-> [j \in Cols |->
                    MacStep(C_work[i][j], A_work[i][k], W_work[j][k])]]
    /\ staleRead' = (staleRead \/ ~written.Awork \/ ~written.Wwork \/ ~written.C)
    /\ touched' = touched \cup {"A_work", "W_work", "C_work"}
    /\ k' = k + 1
    /\ UNCHANGED <<pc, dims, activations, weights_packed, scales, result, A_cache,
                   W_cache, A_work, W_work, m_tile, n_tile, invocation, written,
                   cOwners>>

ComputeExit ==
    /\ pc = "compute"
    /\ k >= dims.K
    /\ pc' = "write"
    /\ UNCHANGED <<dims, activations, weights_packed, scales, result, A_cache,
                   W_cache, A_work, W_work, C_work, m_tile, n_tile, k, invocation,
                   touched, written, staleRead, cOwners>>

\* write_output (sa.cpp:141-152), then n_loop's ++n_tile.  The loop stores
\* C_work[i][j] at (m_tile * PE_ROWS + i) * N + n_tile * PE_COLS + j for every
\* i, j: the cells of result whose row and column fall in the tile.
WriteOutput ==
    /\ pc = "write"
    /\ result' = [idx \in DOMAIN result |->
                    LET m_idx == idx \div dims.N
                        n_idx == idx % dims.N
                    IN  IF m_idx \div PE_ROWS = m_tile /\ n_idx \div PE_COLS = n_tile
                        THEN C_work[m_idx % PE_ROWS][n_idx % PE_COLS]
                        ELSE result[idx]]
    /\ staleRead' = (staleRead \/ ~written.C)
    /\ touched' = touched \cup {"C_work", "result"}
    /\ n_tile' = n_tile + 1
    /\ pc' = "n_loop"
    /\ UNCHANGED <<dims, activations, weights_packed, scales, A_cache, W_cache,
                   A_work, W_work, C_work, m_tile, k, invocation, written, cOwners>>

----------------------------------------------------------------------------
(* The specifications.                                                      *)

DeqIdle == deq = [packed |-> 0, upper |-> FALSE, scale |-> 0, out |-> 0, done |-> TRUE]

QuantIdle ==
    quant = [pc |-> "off", weights |-> <<>>, packed |-> <<>>, scales |-> <<>>,
             grp |-> 0, i |-> 0, shift |-> 0]

MacIdle == mac = [a |-> 0, w |-> 0, k |-> 0, sum |-> 0]

\* SpecDeq
InitDeq == DeqInit /\ QuantIdle /\ MacIdle /\ KernelInit
NextDeq == DeqCall /\ UNCHANGED <<quant, mac, kvars>>
SpecDeq == InitDeq /\ [][NextDeq]_vars

\* SpecQuant
InitQuant == DeqIdle /\ QuantInit /\ MacIdle /\ KernelInit
NextQuant ==
    \/ QuantScale /\ UNCHANGED <<deq, mac, kvars>>
    \/ QuantPair /\ UNCHANGED <<deq, mac, kvars>>
SpecQuant == InitQuant /\ [][NextQuant]_vars

\* SpecAcc
InitAcc == DeqIdle /\ QuantIdle /\ MacInit /\ KernelInit
NextAcc == MacIterate /\ UNCHANGED <<deq, quant, kvars>>
SpecAcc == InitAcc /\ [][NextAcc]_vars

\* Spec: the kernel, invoked up to MaxInvocations times
Init == DeqIdle /\ QuantIdle /\ MacIdle /\ KernelInit
Next ==
    \/ Invoke /\ UNCHANGED <<deq, quant, mac>>
    \/ LoadActTile /\ UNCHANGED <<deq, quant, mac>>
    \/ LoadActExit /\ UNCHANGED <<deq, quant, mac>>
    \/ LoadWgtTile /\ UNCHANGED <<deq, quant, mac>>
    \/ LoadWgtExit /\ UNCHANGED <<deq, quant, mac>>
    \/ MLoopEnter /\ UNCHANGED <<deq, quant, mac>>
    \/ MLoopExit /\ UNCHANGED <<deq, quant, mac>>
    \/ CopyToWork /\ UNCHANGED <<deq, quant, mac>>
    \/ NLoopExit /\ UNCHANGED <<deq, quant, mac>>
    \/ InitOutput /\ UNCHANGED <<deq, quant, mac>>
    \/ ComputeStep /\ UNCHANGED <<deq, quant, mac>>
    \/ ComputeExit /\ UNCHANGED <<deq, quant, mac>>
    \/ WriteOutput /\ UNCHANGED <<deq, quant, mac>>
Spec == Init /\ [][Next]_vars

----------------------------------------------------------------------------
(* Claims.                                                                  *)

\* the dimensions the claims call valid
ValidDims ==
    /\ dims.M % PE_ROWS = 0
    /\ dims.N % PE_COLS = 0
    /\ (dims.K * dims.N) % GROUP_SIZE = 0

\* the dimensions the kernel's arrays are declared for
WithinCompiledDims == dims.M <= M_DIM /\ dims.N <= N_DIM /\ dims.K <= K_DIM

EngineEqualsReference ==
    result = cpu_reference(activations, weights_packed, scales, dims.M, dims.K, dims.N)

\* C1 as stated: for every tile-divisible input, when SystolicArrayKernel
\* has returned, result equals cpu_reference's output element by element.
C1_Original == (pc = "done" /\ ValidDims) => EngineEqualsReference

\* C1 amended: for every tile-divisible input with M <= M_DIM, N <= N_DIM and
\* K <= K_DIM, when SystolicArrayKernel has returned, result equals
\* cpu_reference's output element by element.
C1_EngineEqualsReference ==
    (pc = "done" /\ ValidDims /\ WithinCompiledDims) => EngineEqualsReference

C1_Witness ==
    /\ pc = "done"
    /\ invocation = 2
    /\ dims = [M |-> 2 * PE_ROWS, K |-> MaxK, N |-> 2 * PE_COLS]
    /\ EngineEqualsReference
    /\ \E idx \in DOMAIN result : result[idx] # 0

\* the signed value of a 4-bit field
SignedNibble(nib) == IF nib >= 8 THEN nib - 16 ELSE nib

ExactWeight(packed_byte, is_upper, scale_factor) ==
    SignedNibble(IF is_upper THEN packed_byte \div 16 ELSE packed_byte % 16)
        * Pow2(2 * (scale_factor % 4))

\* C2 as stated: for every byte, nibble flag and scale 0..3,
\* unpack_dequantize_weight returns the sign-extended nibble times
\* 2^(2*(scale & 3)), exactly.
C2_Original ==
    deq.done => deq.out = ExactWeight(deq.packed, deq.upper, deq.scale)

\* C3 as stated: an invocation whose M is not a multiple of PE_ROWS reads no
\* element of activations, weights_packed or scales and writes no element
\* of result or of the scratch arrays.
C3_Original == (pc # "idle" /\ dims.M % PE_ROWS # 0) => touched = {}

\* the dequantized value of element j of the quantized weights
Dequantized(j) ==
    unpack_dequantize_weight(quant.packed[j \div 2], j % 2 = 1,
                             quant.scales[j \div GROUP_SIZE])

\* the elements whose pair quantize_mxint4 has packed
PackedElements ==
    {j \in DOMAIN quant.weights :
        \/ j \div GROUP_SIZE < quant.grp
        \/ j \div GROUP_SIZE = quant.grp /\ quant.pc = "pairs" /\ j - quant.grp * GROUP_SIZE < quant.i}

\* |dequantized - w| <= 2^(2*shift - 1), in units of 1 / (2 * WDen)
WithinHalfStep(j) ==
    2 * Abs(Dequantized(j) * WDen - quant.weights[j])
        <= Pow2(2 * quant.scales[j \div GROUP_SIZE]) * WDen

\* C4 as stated: every quantized element dequantizes to within half a scale
\* step, 2^(2*shift - 1), of its weight.  (96.0 in a group of scale 3 is
\* packed as nibble 2 and comes back as (int8_t)128 = -128.)
C4_Original == \A j \in PackedElements : WithinHalfStep(j)

\* (m, n) comes before (m2, n2) in the row-major order of m_loop / n_loop
Before(m, n, m2, n2) == m < m2 \/ (m = m2 /\ n < n2)

AllTiles == (0 .. NumMTiles - 1) \X (0 .. NumNTiles - 1)

\* the tile computations begun so far, read off the kernel's position
StartedTiles ==
    IF pc \in {"idle", "load_act", "load_wgt"} THEN {}
    ELSE IF pc = "done" THEN AllTiles
    ELSE IF pc = "m_loop" THEN {t \in AllTiles : t[1] < m_tile}
    ELSE IF pc \in {"n_loop", "init"} THEN {t \in AllTiles : Before(t[1], t[2], m_tile, n_tile)}
    ELSE {t \in AllTiles : Before(t[1], t[2], m_tile, n_tile) \/ t = <<m_tile, n_tile>>}

RECURSIVE DotUpTo(_, _, _)
\* the sum of a[0]*w[0], ..., a[kk-1]*w[kk-1], accumulated from zero
DotUpTo(a, w, kk) ==
    IF kk = 0 THEN 0 ELSE MacStep(DotUpTo(a, w, kk - 1), a[kk - 1], w[kk - 1])

\* the working buffers hold the cached tiles (m_tile, n_tile) and nothing else
WorkHoldsCurrentTile ==
    /\ \A i \in Rows : \A kk \in 0 .. dims.K - 1 : A_work[i][kk] = A_cache[m_tile][i][kk]
    /\ \A j \in Cols : \A kk \in 0 .. dims.K - 1 : W_work[j][kk] = W_cache[n_tile][j][kk]
    /\ \A i \in Rows : \A j \in Cols :
        C_work[i][j] = DotUpTo(A_cache[m_tile][i], W_cache[n_tile][j],
                               IF pc = "compute" THEN k ELSE dims.K)

\* C5 as stated: each tile computation owns its accumulator and working
\* buffers; no buffer is used by the computation of two tiles.
C5_Original == Cardinality(cOwners) <= 1

\* C5 amended: Phase 3 computes the (M-tile, N-tile) pairs one at a time in
\* row-major order, every pair in the same static A_work, W_work and C_work;
\* while a pair is computed the buffers hold that pair's cached tiles and
\* partial sums only, so that sequential execution is correct.
C5_SequentialSharedBuffers ==
    /\ cOwners = StartedTiles
    /\ (pc \in {"compute", "write"} /\ m_tile < A_CACHE_TILES /\ n_tile < W_CACHE_TILES)
            => WorkHoldsCurrentTile

C5_Witness ==
    /\ pc = "compute"
    /\ k = MaxK
    /\ m_tile = 1
    /\ n_tile = 1
    /\ Cardinality(cOwners) = 4
    /\ \E i \in Rows, j \in Cols : C_work[i][j] # 0

\* C6: for int8 activations, dequantized weights and K <= K_DIM steps, every
\* intermediate accumulator value is the exact sum of the products so far and
\* lies in the signed 32-bit range: the accumulation never wraps.
C6_NoOverflow ==
    /\ mac.sum = mac.k * mac.a * mac.w
    /\ InInt32(mac.sum)

\* the largest sum there is: K_DIM times (-128) * (-128)
C6_Witness ==
    /\ mac.k = K_DIM
    /\ mac.a = -128
    /\ mac.w = -128
    /\ mac.sum = K_DIM * 16384

\* C7: in every invocation, whatever earlier invocations left in the static
\* scratch arrays, no scratch region is read before this invocation has
\* written it.
C7_ScratchOverwrittenBeforeUse == ~staleRead

\* a second invocation has finished its first tile while A_cache still holds
\* a tile that only the first invocation wrote
C7_Witness ==
    /\ invocation = 2
    /\ pc = "n_loop"
    /\ n_tile = 1
    /\ \E t \in 0 .. A_CACHE_TILES - 1 : t \notin written.A /\ A_cache[t] # ZeroTile

\* C8: the values written to the output for a tile pair are those of the pair
\* computed alone, from a zeroed accumulator, out of the cached activation
\* tile and the cached weight tile, whatever tiles were computed before it.
C8_TileIndependence ==
    (pc = "n_loop" /\ n_tile >= 1 /\ m_tile < A_CACHE_TILES /\ n_tile - 1 < W_CACHE_TILES) =>
        \A i \in Rows : \A j \in Cols :
            result[(m_tile * PE_ROWS + i) * dims.N + (n_tile - 1) * PE_COLS + j]
                = DotUpTo(A_cache[m_tile][i], W_cache[n_tile - 1][j], dims.K)

\* the last of four tiles has been written, in a second invocation
C8_Witness ==
    /\ pc = "n_loop"
    /\ invocation = 2
    /\ m_tile = 1
    /\ n_tile = 2
    /\ dims.K = MaxK
    /\ \E i \in Rows : result[(PE_ROWS + i) * dims.N + PE_COLS] # 0

\* the largest magnitude of group g, as a numerator over WDen
GroupMaxOf(g) ==
    LET mags == {Abs(quant.weights[j]) : j \in g * GROUP_SIZE .. (g + 1) * GROUP_SIZE - 1}
    IN  CHOOSE m \in mags : \A x \in mags : x <= m

\* clamp(floor(log2(max_abs)) - 3, 0, 3) by its thresholds 16, 32 and 64
ExpectedShift(n) ==
    IF n < 16 * WDen THEN 0
    ELSE IF n < 32 * WDen THEN 1
    ELSE IF n < 64 * WDen THEN 2
    ELSE 3

\* the groups whose scale is stored, and those whose bytes are all packed
ScaledGroups ==
    {g \in DOMAIN quant.scales : g < quant.grp \/ (g = quant.grp /\ quant.pc = "pairs")}
PackedGroups == {g \in DOMAIN quant.scales : g < quant.grp}

IndicesInBounds ==
    /\ (pc = "load_act" /\ m_tile < NumMTiles)
            => (m_tile < A_CACHE_TILES /\ dims.K <= K_DIM)
    /\ (pc = "load_wgt" /\ n_tile < NumNTiles)
            => (n_tile < W_CACHE_TILES /\ dims.K <= K_DIM)
    /\ (pc = "n_loop" /\ n_tile < NumNTiles)
            => (m_tile < A_CACHE_TILES /\ n_tile < W_CACHE_TILES /\ dims.K <= K_DIM)

\* C10 as stated: whenever M is a multiple of PE_ROWS and N of PE_COLS, every
\* index used on A_cache, W_cache, A_work and W_work is within bounds.
C10_Original ==
    (dims.M % PE_ROWS = 0 /\ dims.N % PE_COLS = 0) => IndicesInBounds

\* C10 amended: whenever M is a multiple of PE_ROWS and N of PE_COLS, and
\* M <= M_DIM, N <= N_DIM and K <= K_DIM, every index used on A_cache,
\* W_cache, A_work and W_work is within bounds.
C10_IndicesInBounds ==
    (dims.M % PE_ROWS = 0 /\ dims.N % PE_COLS = 0 /\ WithinCompiledDims)
        => IndicesInBounds

\* the last tile A_cache holds is about to be loaded, M being M_DIM
C10_Witness ==
    /\ pc = "load_act"
    /\ dims.M = M_DIM
    /\ m_tile = A_CACHE_TILES - 1

====
